---- MODULE Spec2Model ----
(***************************************************************************)
(* drift-cli: the plan-execution pipeline (risk classifier, executor,      *)
(* snapshot store).  Command texts are sequences of whitespace-separated   *)
(* words, paths are sequences of path components, file contents are small  *)
(* integers.                                                               *)
(***************************************************************************)
EXTENDS Integers, Sequences, FiniteSets, TLC

VARIABLES
    files,   \* the user's files: resolved path -> Absent, IsDir or a content
    snaps,   \* the snapshot store: name of each snapshot directory -> the directory
    clock,   \* datetime.now(), in days
    nextId,  \* number of snapshot ids uuid4() has handed out so far
    env,     \* Executor.__init__: executor_mode, sandbox_root; os.getcwd(); config.json
    ex,      \* the execute_plan invocation in progress, or its result
    res,     \* the last call made directly on the HistoryManager
    made,    \* history: for each snapshot, the create_snapshot call that made it
    twin,    \* a second Executor given the same inputs, with its own files and store
    ledger,  \* history.jsonl: its lines, oldest first
    cli,     \* the suggest or undo command in progress, or its result
    call     \* the last call of a function that changes nothing, and its result

vars == <<files, snaps, clock, nextId, env, ex, res, made, twin, ledger, cli, call>>

(***************************************************************************)
(* Bounds of the model.                                                    *)
(***************************************************************************)
MaxCmds == 2
MaxSnaps == 2
MaxTime == 2
MaxIdLen == 2
MaxEntries == 2
MaxStoreSnaps == 1
MaxLines == 3
MaxSuggests == 2

NoneVal == "None"

\* a file's state: Absent, IsDir (exists, not a regular file) or its content
Absent == 0
IsDir == -1
Contents == {1, 2}
FileStates == {Absent, IsDir} \cup Contents

RECURSIVE SeqsUpTo(_, _)
SeqsUpTo(S, n) ==
    IF n = 0 THEN {<<>>}
    ELSE LET shorter == SeqsUpTo(S, n - 1)
         IN  shorter \cup {Append(s, x) : s \in {t \in shorter : Len(t) = n - 1}, x \in S}

IsPrefix(p, q) == Len(p) <= Len(q) /\ SubSeq(q, 1, Len(p)) = p

(***************************************************************************)
(* Risk classifier (core/safety.py).  A pattern is a sequence of word      *)
(* sets; re.search succeeds when some window of consecutive words of the  *)
(* text matches it word by word.  AnyWord stands for the text a trailing   *)
(* \s+ requires to follow.                                                 *)
(***************************************************************************)
Words == {"ls", "rm", "-rf", "-r", "/", "build", "sudo", "mv", "echo", "hi", ">", "f", "g",
          "xmrig"}
AnyWord == Words

HARD_BLOCKLIST ==
    << << {"rm"}, {"-rf"}, {"/"} >>,        \* rm\s+-rf\s*/($|\s)
       << {"sudo"}, {"rm"}, {"-rf"} >>,     \* sudo\s+rm\s+-rf
       << {"xmrig"} >> >>                   \* xmrig

HIGH_RISK_PATTERNS ==
    << << {"sudo"}, AnyWord >>,             \* sudo\s+
       << {"rm"}, {"-r", "-rf"}, AnyWord >> >>  \* rm\s+-r(f)?\s+

MEDIUM_RISK_PATTERNS ==
    << << {"rm"}, AnyWord >>,               \* rm\s+
       << {"mv"}, AnyWord >>,               \* mv\s+
       << {">"} >> >>                       \* >\s*

re_search(pattern, command) ==
    \E i \in 1..(Len(command) - Len(pattern) + 1) :
        \A j \in 1..Len(pattern) : command[i + j - 1] \in pattern[j]

\* (is_blocked, reason): the reason names the first pattern that matches
is_blocked(command) ==
    LET hits == {k \in 1..Len(HARD_BLOCKLIST) : re_search(HARD_BLOCKLIST[k], command)}
    IN  IF hits # {}
        THEN [blocked |-> TRUE, reason |-> CHOOSE k \in hits : \A m \in hits : k <= m]
        ELSE [blocked |-> FALSE, reason |-> 0]

\* assess_risk without its first check, the one of the hard blocklist
assess_risk_without_blocklist(command) ==
    IF \E k \in 1..Len(HIGH_RISK_PATTERNS) : re_search(HIGH_RISK_PATTERNS[k], command)
    THEN "high"
    ELSE IF \E k \in 1..Len(MEDIUM_RISK_PATTERNS) : re_search(MEDIUM_RISK_PATTERNS[k], command)
         THEN "medium"
    ELSE "low"

assess_risk(command) ==
    IF is_blocked(command).blocked THEN "high"
    ELSE IF \E k \in 1..Len(HIGH_RISK_PATTERNS) : re_search(HIGH_RISK_PATTERNS[k], command)
         THEN "high"
    ELSE IF \E k \in 1..Len(MEDIUM_RISK_PATTERNS) : re_search(MEDIUM_RISK_PATTERNS[k], command)
         THEN "medium"
    ELSE "low"

\* the warnings of a validation that reports the blocked commands only
command_warnings_blocked_only(cmd) ==
    IF is_blocked(cmd).blocked
    THEN << [tag |-> "BLOCKED", idx |-> is_blocked(cmd).reason, text |-> cmd] >>
    ELSE <<>>

\* the warnings one command contributes
CommandWarnings(cmd) ==
    IF is_blocked(cmd).blocked
    THEN << [tag |-> "BLOCKED", idx |-> is_blocked(cmd).reason, text |-> cmd] >>
    ELSE IF assess_risk(cmd) = "high" THEN << [tag |-> "HIGH RISK", idx |-> 0, text |-> cmd] >>
    ELSE IF assess_risk(cmd) = "medium" THEN << [tag |-> "MEDIUM RISK", idx |-> 0, text |-> cmd] >>
    ELSE <<>>

RECURSIVE validate_from(_, _, _, _)
validate_from(commands, i, all_safe, warnings) ==
    IF i > Len(commands) THEN [all_safe |-> all_safe, warnings |-> warnings]
    ELSE validate_from(commands, i + 1,
                       all_safe /\ ~is_blocked(commands[i]).blocked,
                       warnings \o CommandWarnings(commands[i]))

validate_commands_first_only(commands) ==
    IF commands = <<>> THEN [all_safe |-> TRUE, warnings |-> <<>>]
    ELSE validate_from(<<commands[1]>>, 1, TRUE, <<>>)

validate_commands(commands) == validate_from(commands, 1, TRUE, <<>>)

(***************************************************************************)
(* Paths.  A path string is its sequence of components; a leading "~" is   *)
(* the user's home, "~zz" the home of a user that does not exist.          *)
(***************************************************************************)
Home == <<"home", "u">>
SnapshotsDir == Home \o <<".drift", "snapshots">>
Unresolvable == <<"?">>

\* Path.expanduser(): RuntimeError when the home directory cannot be determined
expanduser(p) ==
    IF p # <<>> /\ p[1] = "~" THEN Home \o Tail(p)
    ELSE IF p # <<>> /\ p[1] = "~zz" THEN Unresolvable
    ELSE p

\* Path.resolve() of an absolute path without symlinks: "." and ".." are folded
RECURSIVE resolve_from(_, _)
resolve_from(done, rest) ==
    IF rest = <<>> THEN done
    ELSE IF rest[1] = "." THEN resolve_from(done, Tail(rest))
    ELSE IF rest[1] = ".."
         THEN resolve_from(IF done = <<>> THEN <<>> ELSE SubSeq(done, 1, Len(done) - 1), Tail(rest))
    ELSE resolve_from(Append(done, rest[1]), Tail(rest))

resolve(p) == resolve_from(<<>>, p)

\* path.relative_to(root) succeeds
relative_to_ok(path, root) == IsPrefix(root, path)

_validate_path_safety(path, allowed_roots) ==
    \E k \in 1..Len(allowed_roots) : relative_to_ok(resolve(path), resolve(allowed_roots[k]))

\* the user's files of the model, by resolved path
HomeFile == Home \o <<"n">>
ExtFile == <<"tmp", "x">>
UserPaths == {HomeFile, ExtFile}

(***************************************************************************)
(* Snapshot store (core/history.py).  snaps maps the name of each existing *)
(* snapshot directory to [ts, meta, entries, blobs]: meta is what reading  *)
(* metadata.json gives, entries its "files" list, blobs the copied files   *)
(* by their path below the snapshot directory.                             *)
(***************************************************************************)
SnapNames == <<"s1", "s2", "s3", "s4", "s5", "s6">>
SnapName(i) == SnapNames[i]
AllSnapNames == {SnapNames[i] : i \in 1..Len(SnapNames)}

\* metadata.json: well-formed; absent; not JSON; JSON without "files";
\* JSON of another shape (a list, "files": null); not UTF-8
MetaKinds == {"ok", "missing", "notjson", "nofiles", "notdict", "notutf8"}

\* where create_snapshot copies a file to, below the snapshot directory
TargetRel(path) ==
    IF relative_to_ok(path, Home)
    THEN SubSeq(path, Len(Home) + 1, Len(path))
    ELSE <<"external", path[Len(path)]>>

FileOf(fs, path) == IF path \in DOMAIN fs THEN fs[path] ELSE Absent

\* the loop of create_snapshot over files[i..]: acc = [entries, blobs]
RECURSIVE snapshot_files(_, _, _, _, _, _)
snapshot_files(fs, sid, paths, i, uncopyable, acc) ==
    IF i > Len(paths) THEN acc
    ELSE LET path == resolve(expanduser(paths[i]))
             rel == TargetRel(path)
         IN  IF FileOf(fs, path) = Absent \/ FileOf(fs, path) = IsDir \/ path \in uncopyable
             THEN snapshot_files(fs, sid, paths, i + 1, uncopyable, acc)
             ELSE snapshot_files(fs, sid, paths, i + 1, uncopyable,
                     [entries |-> Append(acc.entries,
                                         [original |-> path,
                                          snapshot |-> SnapshotsDir \o <<sid>> \o rel]),
                      blobs |-> (rel :> FileOf(fs, path)) @@ acc.blobs])

IoModes == {"ok", "mkdir_fails", "metadata_write_fails"}

\* create_snapshot(files): [raised, id, snaps]
create_snapshot(fs, store, now, sid, paths, io, uncopyable) ==
    IF io = "mkdir_fails" THEN [raised |-> TRUE, id |-> NoneVal, snaps |-> store]
    ELSE LET acc == snapshot_files(fs, sid, paths, 1, uncopyable,
                                   [entries |-> <<>>, blobs |-> <<>>])
             dir == [ts |-> now, entries |-> acc.entries, blobs |-> acc.blobs,
                     meta |-> IF io = "metadata_write_fails" THEN "missing" ELSE "ok"]
         IN  [raised |-> io = "metadata_write_fails",
              id |-> IF io = "metadata_write_fails" THEN NoneVal ELSE sid,
              snaps |-> (sid :> dir) @@ store]

(***************************************************************************)
(* A snapshot id is a sequence of characters; the name of a snapshot       *)
(* directory and ".." count as one character each.                         *)
(***************************************************************************)
Sep == "/"
Backslash == "\\"
Dots == {".", ".."}

\* line 208: the id is empty, holds a separator or starts with '.'
id_rejected_no_slash(id) == id = <<>> \/ Backslash \in {id[k] : k \in 1..Len(id)} \/ id[1] \in Dots

id_rejected(id) ==
    \/ id = <<>>
    \/ Sep \in {id[k] : k \in 1..Len(id)}
    \/ Backslash \in {id[k] : k \in 1..Len(id)}
    \/ id[1] \in Dots

\* the components of a path string: the runs of characters between separators
RECURSIVE split_from(_, _, _)
split_from(id, i, cur) ==
    IF i > Len(id) THEN <<cur>>
    ELSE IF id[i] = Sep THEN <<cur>> \o split_from(id, i + 1, <<>>)
    ELSE split_from(id, i + 1, Append(cur, id[i]))

\* the directory snapshots_dir / id names: a snapshot's name, or NoneVal
RECURSIVE walk(_, _, _)
walk(store, comps, at) ==
    IF at = "nowhere" \/ comps = <<>> THEN at
    ELSE LET c == comps[1]
         IN  IF c = <<>> \/ c = <<".">> THEN walk(store, Tail(comps), at)
             ELSE IF c = <<"..">>
                  THEN walk(store, Tail(comps), IF at = "root" THEN "nowhere" ELSE "root")
             ELSE IF at = "root" /\ Len(c) = 1 /\ c[1] \in DOMAIN store
                  THEN walk(store, Tail(comps), c[1])
             ELSE "nowhere"

snapshot_dir_of(store, id) ==
    LET at == walk(store, split_from(id, 1, <<>>), "root")
    IN  IF at \in DOMAIN store THEN at ELSE NoneVal

\* the regular file a snapshot-side path names: its content, or Absent
SnapSideFile(fs, store, path) ==
    IF relative_to_ok(path, SnapshotsDir) /\ Len(path) > Len(SnapshotsDir) + 1
    THEN LET sid == path[Len(SnapshotsDir) + 1]
             rel == SubSeq(path, Len(SnapshotsDir) + 2, Len(path))
         IN  IF sid \in DOMAIN store /\ rel \in DOMAIN store[sid].blobs
             THEN store[sid].blobs[rel]
             ELSE Absent
    ELSE FileOf(fs, path)

\* lines 224-246, from entry i on: [ret, files, copied]
RECURSIVE restore_entries(_, _, _, _, _, _)
restore_entries(fs, store, entries, i, unwritable, copied) ==
    IF i > Len(entries)
    THEN [ret |-> IF Len(copied) > 0 THEN "True" ELSE "False", files |-> fs, copied |-> copied]
    ELSE LET original_str == entries[i].original
             snapshot_str == entries[i].snapshot
             original == resolve(expanduser(original_str))
             snapshot == resolve(snapshot_str)
             content == SnapSideFile(fs, store, snapshot)
         IN  IF original_str = <<>> \/ snapshot_str = <<>>
             THEN restore_entries(fs, store, entries, i + 1, unwritable, copied)
             ELSE IF expanduser(original_str) = Unresolvable
             THEN [ret |-> "raise", files |-> fs, copied |-> copied]
             ELSE IF ~_validate_path_safety(snapshot, <<SnapshotsDir>>)
             THEN restore_entries(fs, store, entries, i + 1, unwritable, copied)
             ELSE IF ~_validate_path_safety(original, <<Home>>)
             THEN restore_entries(fs, store, entries, i + 1, unwritable, copied)
             ELSE IF content \in Contents
             THEN IF original \in unwritable
                  THEN [ret |-> "False", files |-> fs, copied |-> copied]
                  ELSE restore_entries(
                          IF FileOf(fs, original) = IsDir THEN fs
                          ELSE (original :> content) @@ fs,
                          store, entries, i + 1, unwritable, Append(copied, original))
             ELSE restore_entries(fs, store, entries, i + 1, unwritable, copied)

\* restore_snapshot(snapshot_id): [ret, files, copied, touched]; touched says
\* that the call went on to the filesystem
restore_snapshot(fs, store, id, unwritable) ==
    IF id_rejected(id)
    THEN [ret |-> "False", files |-> fs, copied |-> <<>>, touched |-> FALSE]
    ELSE LET sid == snapshot_dir_of(store, id)
             meta == IF sid = NoneVal THEN "missing" ELSE store[sid].meta
             r == restore_entries(fs, store, store[sid].entries, 1, unwritable, <<>>)
         IN  IF meta \in {"missing", "notjson", "nofiles"}
             THEN [ret |-> "False", files |-> fs, copied |-> <<>>, touched |-> TRUE]
             ELSE IF meta \in {"notdict", "notutf8"}
             THEN [ret |-> "raise", files |-> fs, copied |-> <<>>, touched |-> TRUE]
             ELSE [ret |-> r.ret, files |-> r.files, copied |-> r.copied, touched |-> TRUE]

\* list_snapshots(): the snapshot directories whose metadata.json loads
listed(store) == {sid \in DOMAIN store : store[sid].meta = "ok"}

\* the orders sorted(..., key=timestamp, reverse=True) can give them in
sorted_newest_first(store) ==
    {o \in SeqsUpTo(listed(store), Cardinality(listed(store))) :
        /\ Len(o) = Cardinality(listed(store))
        /\ \A i, j \in 1..Len(o) : i < j => o[i] # o[j] /\ store[o[i]].ts >= store[o[j]].ts}

kept_by_position_off_by_one(idx, keep) == idx < keep - 1

\* line 290: position idx (from 0) of the sorted list is always kept
kept_by_position(idx, keep) == idx < keep

\* line 296
older_than(snap_time, cutoff_time) == snap_time < cutoff_time

\* cleanup_old_snapshots(keep, max_age_days) over the sorted list `order`;
\* rmtree fails on the snapshots of `undeletable`: [deleted, snaps]
cleanup_old_snapshots(store, now, keep, max_age_days, order, undeletable) ==
    LET cutoff_time == now - max_age_days
        gone == {order[i] : i \in {k \in 1..Len(order) :
                     /\ ~kept_by_position(k - 1, keep)
                     /\ older_than(store[order[k]].ts, cutoff_time)
                     /\ order[k] \notin undeletable}}
    IN  IF Len(order) <= keep THEN [deleted |-> 0, snaps |-> store]
        ELSE [deleted |-> Cardinality(gone),
              snaps |-> [sid \in DOMAIN store \ gone |-> store[sid]]]

(***************************************************************************)
(* The ledger (history.jsonl).  A line is a serialized HistoryEntry or a   *)
(* malformed record: text that is not JSON, a JSON object that is no       *)
(* HistoryEntry, a JSON value that is no object, or bytes that are not     *)
(* UTF-8.                                                                  *)
(***************************************************************************)
LineKinds == {"entry", "notjson", "schema", "notobject", "notutf8"}
\* archives: the files history.<time>.jsonl by their time, each its lines
NoLedger == [exists |-> FALSE, lines |-> <<>>, archives |-> <<>>]

\* HistoryEntry(...) as add_entry writes it
HistoryEntry(query, executed, exit_code, snapshot_id) ==
    [kind |-> "entry", query |-> query, executed |-> executed,
     exit_code |-> exit_code, snapshot_id |-> snapshot_id]
Malformed(kind) == [HistoryEntry(0, FALSE, NoneVal, NoneVal) EXCEPT !.kind = kind]

\* add_entry: the entry is appended to the file, which is created if missing
add_entry(log, entry) == [log EXCEPT !.exists = TRUE, !.lines = Append(@, entry)]

\* MAX_HISTORY_SIZE_MB, counted in lines, all lines being of one size
MaxHistoryLines == 2
\* the appends of one behaviour with rotation
MaxAppended == 4

keep_from_rounded_up(n) == (n + 1) \div 2

\* line 45
keep_from(n) == n \div 2

\* _rotate_if_needed() at the time now, which names the archive file;
\* open(archive_file, 'w') replaces a file of that name
_rotate_if_needed(log, now) ==
    IF ~log.exists THEN log
    ELSE IF Len(log.lines) > MaxHistoryLines
    THEN LET lines == log.lines
             k == keep_from(Len(lines))
         IN  [log EXCEPT
                !.archives = [t \in DOMAIN @ \cup {now} |->
                                 IF t = now THEN SubSeq(lines, 1, k) ELSE @[t]],
                !.lines = SubSeq(lines, k + 1, Len(lines))]
    ELSE log

\* Python's lines[start:]
slice_from(lines, start) ==
    LET n == Len(lines)
        from == IF start < 0 THEN (IF n + start > 0 THEN n + start ELSE 0)
                ELSE (IF start < n THEN start ELSE n)
    IN  SubSeq(lines, from + 1, n)

reversed(seq) == [i \in 1..Len(seq) |-> seq[Len(seq) + 1 - i]]

\* line 119: lines[-limit:]
tail_of(lines, limit) == slice_from(lines, 0 - limit)

\* lines 120-124 on one line: the entry is taken, the line is skipped, or
\* the exception is not caught
parse_line(kind) ==
    IF kind = "entry" THEN "take"
    ELSE IF kind \in {"notjson", "schema"} THEN "skip"
    ELSE "raise"

\* the loop of get_history over the lines todo
RECURSIVE read_lines(_, _)
read_lines(todo, acc) ==
    IF todo = <<>> THEN [raised |-> FALSE, entries |-> acc]
    ELSE LET how == parse_line(todo[1].kind)
         IN  IF how = "raise" THEN [raised |-> TRUE, entries |-> <<>>]
             ELSE read_lines(Tail(todo), IF how = "take" THEN Append(acc, todo[1]) ELSE acc)

\* get_history(limit): [raised, entries]
get_history(log, limit) ==
    IF ~log.exists THEN [raised |-> FALSE, entries |-> <<>>]
    ELSE IF \E i \in 1..Len(log.lines) : log.lines[i].kind = "notutf8"
    THEN [raised |-> TRUE, entries |-> <<>>]
    ELSE read_lines(reversed(tail_of(log.lines, limit)), <<>>)

\* get_last_entry(): [raised, entries], entries holding the entry if there is one
get_last_entry(log) ==
    LET got == get_history(log, 1)
    IN  [raised |-> got.raised,
         entries |-> IF got.entries # <<>> THEN <<got.entries[1]>> ELSE <<>>]

(***************************************************************************)
(* Executor (core/executor.py).                                            *)
(***************************************************************************)
None == [some |-> FALSE, val |-> <<>>]
Some(v) == [some |-> TRUE, val |-> v]
\* Python's truth value of an Optional[str] or Optional[list]
Truthy(opt) == opt.some /\ opt.val # <<>>

\* the Command values and plans of the model
Preview == <<"echo", "hi">>
CommandSet ==
    { [command |-> <<"ls">>, dry_run |-> None],
      [command |-> <<"ls">>, dry_run |-> Some(<<>>)],
      [command |-> <<"echo", "hi", ">", "f">>, dry_run |-> Some(Preview)],
      [command |-> <<"rm", "-rf", "build">>, dry_run |-> None],
      [command |-> <<"rm", "-rf", "/">>, dry_run |-> Some(Preview)] }
AffectedSet == {None, Some(<<>>), Some(<<(<<"~", "n">>)>>), Some(<<ExtFile, HomeFile>>)}
\* RiskLevel, the tier a plan declares for itself
RiskLevels == {"low", "medium", "high"}
PlanSet == [commands : SeqsUpTo(CommandSet, MaxCmds), affected_files : AffectedSet,
            risk : RiskLevels]
\* the plans that declare themselves low risk, whatever their commands
ExecPlans == {plan \in PlanSet : plan.risk = "low"}

commands_list(plan) == [i \in 1..Len(plan.commands) |-> plan.commands[i].command]

\* os.getenv("DRIFT_DRY_RUN", "") and str.lower() on the values of the model
DryRunEnv == {"", "TRUE", "0"}
lower(s) == IF s = "TRUE" THEN "true" ELSE s

forced_dry_run_exact(value) == value \in {"1", "true", "yes"}

\* line 39
forced_dry_run(value) == lower(value) \in {"1", "true", "yes"}

sandbox_violation_unresolved(sandbox_root, cwd) ==
    IF ~Truthy(sandbox_root) THEN FALSE
    ELSE ~relative_to_ok(cwd, sandbox_root.val)

\* _check_sandbox_violation(): TRUE when there is a violation message
_check_sandbox_violation(sandbox_root, cwd) ==
    IF ~Truthy(sandbox_root) THEN FALSE
    ELSE ~relative_to_ok(resolve(cwd), resolve(sandbox_root.val))

snapshot_wanted_even_dry(plan, dry_run) == Truthy(plan.affected_files)

\* line 57
snapshot_wanted(plan, dry_run) == Truthy(plan.affected_files) /\ ~dry_run

\* how subprocess.run ends: the process completes, the 300 s bound passes,
\* or the process cannot be started
SubprocessOutcomes ==
    { [kind |-> "completed", returncode |-> 0, output |-> ""],
      [kind |-> "completed", returncode |-> 0, output |-> "stdout"],
      [kind |-> "completed", returncode |-> 2, output |-> "stderr"],
      [kind |-> "TimeoutExpired", returncode |-> 0, output |-> ""],
      [kind |-> "Exception", returncode |-> 0, output |-> ""] }

TimedOutMarker == "Command timed out after 5 minutes"

run_command_timeout_not_failure(o) ==
    IF o.kind = "completed" THEN [code |-> o.returncode, out |-> o.output]
    ELSE IF o.kind = "TimeoutExpired" THEN [code |-> 0, out |-> TimedOutMarker]
    ELSE [code |-> 1, out |-> "Failed to execute"]

\* _run_command(command): (exit_code, output)
_run_command(o) ==
    IF o.kind = "completed" THEN [code |-> o.returncode, out |-> o.output]
    ELSE IF o.kind = "TimeoutExpired" THEN [code |-> 1, out |-> TimedOutMarker]
    ELSE [code |-> 1, out |-> "Failed to execute"]

\* what _run_command can return, and what the command did to the user's files
RunOutcomes == {_run_command(o) : o \in SubprocessOutcomes}
Effects ==
    {[path |-> HomeFile, content |-> c] : c \in {Absent, 2}} \cup {[path |-> ExtFile, content |-> 2]}

Line(tag, idx, text) == [tag |-> tag, idx |-> idx, text |-> text]

Idle ==
    [pc |-> "idle", plan |-> [commands |-> <<>>, affected_files |-> None, risk |-> "low"],
     arg_dry |-> FALSE, env_dry |-> "", dry_run |-> FALSE, idx |-> 0,
     exit_code |-> 0, output |-> <<>>, snapshot_id |-> NoneVal, calls |-> <<>>,
     gate |-> "none", io |-> "ok"]

stop_never(code) == FALSE

\* line 80
stop_on(code) == code # 0

\* what one Executor and its HistoryManager work on
World(fs, store, n, hist, x) ==
    [files |-> fs, snaps |-> store, nextId |-> n, made |-> hist, ex |-> x]

\* line 43: the texts the safety gate is given
gate_input_unless_low(plan) ==
    IF plan.risk = "low" THEN <<>> ELSE commands_list(plan)

gate_input(plan) == commands_list(plan)

\* lines 38-58 of execute_plan(plan, arg_dry) in world w: the override, the
\* two gates and the snapshot
execute_plan_begin(w, e, now, plan, arg_dry, env_dry, io) ==
    LET dry_run == arg_dry \/ forced_dry_run(env_dry)
        checked == validate_commands(gate_input(plan))
        sid == SnapName(w.nextId + 1)
        snap == create_snapshot(w.files, w.snaps, now, sid, plan.affected_files.val, io, {})
        base == [Idle EXCEPT !.plan = plan, !.arg_dry = arg_dry, !.env_dry = env_dry,
                             !.dry_run = dry_run]
    IN  IF ~checked.all_safe
        THEN [w EXCEPT !.ex = [base EXCEPT !.pc = "returned", !.exit_code = 1,
                                           !.output = checked.warnings, !.gate = "blocked"]]
        ELSE IF _check_sandbox_violation(e.sandbox_root, e.cwd)
        THEN [w EXCEPT !.ex = [base EXCEPT !.pc = "returned", !.exit_code = 1,
                                  !.output = <<Line("SANDBOX VIOLATION", 0, e.sandbox_root.val)>>,
                                  !.gate = "sandbox"]]
        ELSE IF snapshot_wanted(plan, dry_run)
        THEN [w EXCEPT
                !.nextId = @ + 1,
                !.snaps = snap.snaps,
                !.made = IF sid \in DOMAIN snap.snaps
                         THEN (sid :> [paths |-> plan.affected_files.val, files |-> w.files,
                                       clean |-> io = "ok", pristine |-> TRUE]) @@ @
                         ELSE @,
                !.ex = [base EXCEPT !.gate = "passed", !.io = io,
                          !.pc = IF snap.raised THEN "raised"
                                 ELSE IF plan.commands = <<>> THEN "returned" ELSE "loop",
                          !.idx = 1, !.snapshot_id = snap.id,
                          !.calls = <<[op |-> "create_snapshot", idx |-> 0, code |-> 0,
                                       sub |-> "none", where |-> "none"]>>]]
        ELSE [w EXCEPT !.ex = [base EXCEPT !.gate = "passed",
                                  !.pc = IF plan.commands = <<>> THEN "returned" ELSE "loop",
                                  !.idx = 1]]

\* lines 70-74: where the subprocess of a command runs.  Every mode but
\* mock takes the branch of _run_command, which calls subprocess.run on the
\* command itself with cwd=os.getcwd()
run_place(executor_mode) == "host"

\* lines 64-84: one iteration of the loop in world w, the subprocess ending
\* as o and changing the files by eff; the return follows the last iteration
execute_plan_step(w, e, o, eff) ==
    LET r == _run_command(o)
        idx == w.ex.idx
        cmd == w.ex.plan.commands[idx]
        last == idx = Len(w.ex.plan.commands)
        after(stop) == IF stop \/ last THEN "returned" ELSE "loop"
    IN  IF w.ex.dry_run
        THEN [w EXCEPT !.ex.output = Append(@, Line("DRY RUN", idx,
                              IF Truthy(cmd.dry_run) THEN cmd.dry_run.val ELSE cmd.command)),
                       !.ex.idx = idx + 1, !.ex.pc = after(FALSE)]
        ELSE IF e.executor_mode = "mock"
        THEN [w EXCEPT !.ex.output = Append(@, Line("MOCK", idx, cmd.command)),
                       !.ex.idx = idx + 1, !.ex.pc = after(FALSE)]
        ELSE [w EXCEPT
                !.files = IF r.out = "Failed to execute" THEN @
                          ELSE [@ EXCEPT ![eff.path] = eff.content],
                !.ex.output = (@ \o <<Line("Executing", idx, cmd.command)>>)
                              \o (IF r.out # "" THEN <<Line("out", idx, <<r.out>>)>> ELSE <<>>)
                              \o (IF stop_on(r.code)
                                  THEN <<Line("Command failed", r.code, <<>>)>> ELSE <<>>),
                !.ex.exit_code = r.code,
                !.ex.calls = Append(@, [op |-> "run", idx |-> idx, code |-> r.code,
                                        sub |-> o.kind, where |-> run_place(e.executor_mode)]),
                !.ex.idx = idx + 1, !.ex.pc = after(stop_on(r.code))]

\* the runs of a command the next iteration can make: one, unused, when the
\* iteration runs nothing
Runs(x, e) ==
    IF x.dry_run \/ e.executor_mode = "mock"
    THEN {[o |-> [kind |-> "completed", returncode |-> 0, output |-> ""],
           eff |-> [path |-> HomeFile, content |-> Absent]]}
    ELSE [o : SubprocessOutcomes, eff : Effects]

\* execute_plan is called: lines 38-58
ExecBegin ==
    /\ ex.pc = "idle"
    /\ \E plan \in ExecPlans, arg_dry \in BOOLEAN, env_dry \in DryRunEnv, io \in IoModes :
        \E wn \in {execute_plan_begin(World(files, snaps, nextId, made, ex), env, clock,
                                       plan, arg_dry, env_dry, io)} :
            /\ wn.nextId # nextId => nextId < MaxSnaps
            /\ (wn.nextId = nextId /\ wn.ex.gate = "passed") => io = "ok"
            /\ ex' = wn.ex
            /\ snaps' = wn.snaps
            /\ nextId' = wn.nextId
            /\ made' = wn.made
    /\ UNCHANGED <<files, clock, env, res, twin, ledger, cli, call>>

\* lines 64-84: one iteration of the loop
ExecStep ==
    /\ ex.pc = "loop"
    /\ \E run \in Runs(ex, env) :
        \E wn \in {execute_plan_step(World(files, snaps, nextId, made, ex), env,
                                      run.o, run.eff)} :
            /\ ex' = wn.ex
            /\ files' = wn.files
    /\ UNCHANGED <<snaps, clock, nextId, env, res, made, twin, ledger, cli, call>>

(***************************************************************************)
(* Calls made directly on the HistoryManager, the user's edits of files,   *)
(* edits of a snapshot's metadata.json from outside, and the clock.        *)
(***************************************************************************)
ResIdle ==
    [op |-> "none", id |-> <<>>, ret |-> "", touched |-> FALSE, copied |-> <<>>,
     files |-> <<>>, snaps |-> <<>>, keep |-> 0, age |-> 0, unwritable |-> {}]

NoTwin == World(<<>>, <<>>, 0, <<>>, Idle)
NoCli ==
    [cmd |-> "none", pc |-> "idle", branch |-> "none", lines_before |-> 0,
     snaps_before |-> <<>>, files_before |-> <<>>, dry_handled |-> FALSE, ran |-> 0,
     snapshots |-> 0, asked |-> NoneVal, ret |-> "", message |-> ""]
NoCall == [op |-> "none"]

PathLists == { <<ExtFile>>, <<(<<"~", "n">>)>>, <<ExtFile, HomeFile>> }

\* create_snapshot(paths)
Create(paths, io, uncopyable) ==
    /\ ex.pc = "idle"
    /\ nextId < MaxSnaps
    /\ LET sid == SnapName(nextId + 1)
           snap == create_snapshot(files, snaps, clock, sid, paths, io, uncopyable)
       IN  /\ snaps' = snap.snaps
           /\ made' = IF sid \in DOMAIN snap.snaps
                      THEN (sid :> [paths |-> paths, files |-> files,
                                    clean |-> io = "ok" /\ uncopyable = {},
                                    pristine |-> TRUE]) @@ made
                      ELSE made
           /\ res' = [ResIdle EXCEPT !.op = "create", !.id = <<snap.id>>,
                                     !.ret = IF snap.raised THEN "raise" ELSE snap.id]
    /\ nextId' = nextId + 1
    /\ UNCHANGED <<files, clock, env, ex, twin, ledger, cli, call>>

\* the user (or a command) changes or deletes one of the files
Mutate ==
    /\ ex.pc = "idle"
    /\ \E path \in UserPaths, c \in {Absent} \cup Contents :
        /\ files[path] # c
        /\ files' = [files EXCEPT ![path] = c]
    /\ res' = ResIdle
    /\ UNCHANGED <<snaps, clock, nextId, env, ex, made, twin, ledger, cli, call>>

\* the entries an edited metadata.json may hold for snapshot sid
TamperedEntries(sid) ==
    LET blob == SnapshotsDir \o <<sid, "n">>
    IN  { [original |-> HomeFile, snapshot |-> blob],
          [original |-> ExtFile, snapshot |-> blob],
          [original |-> Home \o <<"..", "..", "tmp", "x">>, snapshot |-> blob],
          [original |-> <<"~zz", "n">>, snapshot |-> blob],
          [original |-> <<>>, snapshot |-> blob],
          [original |-> HomeFile, snapshot |-> <<>>],
          [original |-> HomeFile, snapshot |-> ExtFile],
          [original |-> HomeFile, snapshot |-> SnapshotsDir \o <<sid, "..", "..", "..", "n">>],
          [original |-> HomeFile, snapshot |-> SnapshotsDir \o <<sid, "gone">>] }

\* metadata.json of one snapshot is overwritten from outside the program
Tamper ==
    /\ ex.pc = "idle"
    /\ \A s \in DOMAIN made : made[s].pristine
    /\ \E sid \in DOMAIN snaps, kind \in MetaKinds :
        \E entries \in (IF kind = "ok" THEN SeqsUpTo(TamperedEntries(sid), MaxEntries)
                        ELSE {snaps[sid].entries}) :
            /\ snaps' = [snaps EXCEPT ![sid].meta = kind, ![sid].entries = entries]
            /\ made' = [made EXCEPT ![sid].pristine = FALSE]
    /\ res' = ResIdle
    /\ UNCHANGED <<files, clock, nextId, env, ex, twin, ledger, cli, call>>

\* restore_snapshot(id)
Restore(id, unwritable) ==
    /\ ex.pc = "idle"
    /\ LET r == restore_snapshot(files, snaps, id, unwritable)
       IN  /\ files' = r.files
           /\ res' = [ResIdle EXCEPT !.op = "restore", !.id = id, !.ret = r.ret,
                                     !.touched = r.touched, !.copied = r.copied,
                                     !.files = files, !.unwritable = unwritable]
    /\ UNCHANGED <<snaps, clock, nextId, env, ex, made, twin, ledger, cli, call>>

\* cleanup_old_snapshots(keep, max_age_days)
CleanupOldSnapshots ==
    /\ ex.pc = "idle"
    /\ \E keep \in 0..MaxSnaps, age \in 0..MaxTime, order \in sorted_newest_first(snaps),
          undeletable \in {{}} \cup {{s} : s \in DOMAIN snaps} :
        LET r == cleanup_old_snapshots(snaps, clock, keep, age, order, undeletable)
        IN  /\ snaps' = r.snaps
            /\ res' = [ResIdle EXCEPT !.op = "cleanup", !.ret = ToString(r.deleted),
                                      !.snaps = snaps, !.keep = keep, !.age = age]
    /\ UNCHANGED <<files, clock, nextId, env, ex, made, twin, ledger, cli, call>>

\* a day passes
Tick ==
    /\ clock < MaxTime
    /\ clock' = clock + 1
    /\ res' = ResIdle
    /\ UNCHANGED <<files, snaps, nextId, env, ex, made, twin, ledger, cli, call>>

\* add_entry(query, plan, executed, exit_code, snapshot_id) called directly
AddEntry ==
    /\ Len(ledger.lines) < MaxLines
    /\ \E executed \in BOOLEAN, snapshot_id \in {NoneVal, SnapName(1)} :
          ledger' = add_entry(ledger, HistoryEntry(Len(ledger.lines) + 1, executed,
                                 IF executed THEN "0" ELSE NoneVal, snapshot_id))
    /\ call' = NoCall
    /\ UNCHANGED <<files, snaps, clock, nextId, env, ex, res, made, twin, cli>>

\* a line of history.jsonl is damaged, or a damaged line is added, from
\* outside the program
LedgerDamage ==
    /\ ledger.exists
    /\ \E kind \in LineKinds \ {"entry"} :
          \/ /\ Len(ledger.lines) < MaxLines
             /\ ledger' = [ledger EXCEPT !.lines = Append(@, Malformed(kind))]
          \/ \E i \in 1..Len(ledger.lines) :
                /\ ledger.lines[i].kind = "entry"
                /\ ledger' = [ledger EXCEPT !.lines[i] = Malformed(kind)]
    /\ call' = NoCall
    /\ UNCHANGED <<files, snaps, clock, nextId, env, ex, res, made, twin, cli>>

\* get_history(limit)
GetHistory ==
    /\ \E limit \in 0..MaxLines :
          \E got \in {get_history(ledger, limit)} :
             call' = [op |-> "get_history", limit |-> limit, log |-> ledger,
                      raised |-> got.raised, ret |-> got.entries]
    /\ UNCHANGED <<files, snaps, clock, nextId, env, ex, res, made, twin, ledger, cli>>

\* get_last_entry()
GetLastEntry ==
    /\ \E got \in {get_last_entry(ledger)} :
          call' = [op |-> "get_last_entry", limit |-> 1, log |-> ledger,
                   raised |-> got.raised, ret |-> got.entries]
    /\ UNCHANGED <<files, snaps, clock, nextId, env, ex, res, made, twin, ledger, cli>>

\* HistoryManager(): the ledger is opened, lines 19-29
OpenLedger ==
    /\ ledger' = _rotate_if_needed(ledger, clock)
    /\ res' = [op |-> "open", log |-> ledger, now |-> clock]
    /\ UNCHANGED <<files, snaps, clock, nextId, env, ex, made, twin, cli, call>>

\* add_entry on an open ledger; call.appended keeps every entry ever written
RotAddEntry ==
    /\ call.op \in {"none", "add_entry"}
    /\ \E appended \in {IF call.op = "none" THEN <<>> ELSE call.appended} :
        /\ Len(appended) < MaxAppended
        /\ \E executed \in BOOLEAN :
           \E entry \in {HistoryEntry(Len(appended) + 1, executed,
                                      IF executed THEN "0" ELSE NoneVal, NoneVal)} :
            /\ ledger' = add_entry(ledger, entry)
            /\ call' = [op |-> "add_entry", appended |-> Append(appended, entry)]
            /\ res' = [op |-> "add_entry", log |-> ledger, entry |-> entry]
    /\ UNCHANGED <<files, snaps, clock, nextId, env, ex, made, twin, cli>>

(***************************************************************************)
(* The suggest and undo commands (commands/suggest_cmd.py,                 *)
(* commands/history_cmd.py).  Each invocation is a process of its own with *)
(* a fresh Executor; what outlives it are the files, the snapshot store    *)
(* and the ledger.                                                         *)
(***************************************************************************)
SuggestCommands ==
    { [command |-> <<"ls">>, dry_run |-> None],
      [command |-> <<"rm", "-rf", "/">>, dry_run |-> None] }
SuggestPlans ==
    [commands : SeqsUpTo(SuggestCommands, MaxCmds),
     affected_files : {None, Some(<<(<<"~", "n">>)>>), Some(<<ExtFile>>)},
     risk : {"high"}]

\* the number of lines written: the query of the entry being appended
NextQuery == Len(ledger.lines) + 1

\* suggest, lines 116-155: the plan arrives, the safety check, and the branch
\* taken; execute_plan is entered in the two branches that call it
SuggestBegin ==
    /\ cli.pc # "executing"
    /\ Len(ledger.lines) < MaxSuggests
    /\ LET started == [NoCli EXCEPT !.cmd = "suggest", !.lines_before = Len(ledger.lines),
                                    !.snaps_before = snaps, !.files_before = files]
           unexecuted == add_entry(ledger, HistoryEntry(NextQuery, FALSE, NoneVal, NoneVal))
       IN  \/ \* get_plan raises ValueError
              /\ cli' = [started EXCEPT !.pc = "exit1", !.branch = "no_plan"]
              /\ ex' = Idle
              /\ UNCHANGED <<snaps, nextId, made, ledger>>
           \/ \E plan \in SuggestPlans :
                IF ~validate_commands(commands_list(plan)).all_safe
                THEN /\ cli' = [started EXCEPT !.pc = "exit1", !.branch = "blocked"]
                     /\ ledger' = unexecuted
                     /\ ex' = [Idle EXCEPT !.plan = plan]
                     /\ UNCHANGED <<snaps, nextId, made>>
                ELSE \E dry_run \in BOOLEAN, proceed \in BOOLEAN :
                       \* proceed: --execute given, or the confirmation answered yes
                       IF dry_run \/ proceed
                       THEN \E env_dry \in {"", "1"}, io \in {"ok", "mkdir_fails"} :
                            \E wn \in {execute_plan_begin(
                                          World(files, snaps, nextId, made, Idle), env,
                                          clock, plan, dry_run, env_dry, io)} :
                               /\ wn.nextId # nextId => nextId < MaxSnaps
                               /\ wn.nextId = nextId => io = "ok"
                               /\ ex' = wn.ex
                               /\ snaps' = wn.snaps
                               /\ nextId' = wn.nextId
                               /\ made' = wn.made
                               /\ cli' = [started EXCEPT !.pc = "executing",
                                            !.branch = IF dry_run THEN "dry_run" ELSE "execute"]
                               /\ UNCHANGED ledger
                       ELSE /\ cli' = [started EXCEPT !.pc = "done", !.branch = "cancelled"]
                            /\ ledger' = unexecuted
                            /\ ex' = [Idle EXCEPT !.plan = plan]
                            /\ UNCHANGED <<snaps, nextId, made>>
    /\ UNCHANGED <<files, clock, env, res, twin, call>>

\* suggest, lines 147-173: execute_plan has returned or raised; the entry is
\* appended and the process ends
SuggestEnd ==
    /\ cli.pc = "executing"
    /\ ex.pc \in {"returned", "raised"}
    /\ LET summary == [cli EXCEPT !.dry_handled = ex.dry_run /\ ex.gate = "passed",
                                  !.ran = Len(SelectSeq(ex.calls, LAMBDA c : c.op = "run")),
                                  !.snapshots = Len(SelectSeq(ex.calls,
                                                      LAMBDA c : c.op = "create_snapshot"))]
       IN  IF ex.pc = "raised"
           THEN /\ cli' = [summary EXCEPT !.pc = "raised"]
                /\ UNCHANGED ledger
           ELSE IF cli.branch = "dry_run"
           THEN /\ cli' = [summary EXCEPT !.pc = "done"]
                /\ ledger' = add_entry(ledger, HistoryEntry(NextQuery, FALSE, NoneVal, NoneVal))
           ELSE /\ cli' = [summary EXCEPT !.pc = "done"]
                /\ ledger' = add_entry(ledger, HistoryEntry(NextQuery, TRUE,
                                           ToString(ex.exit_code), ex.snapshot_id))
    /\ ex' = [Idle EXCEPT !.plan = ex.plan]
    /\ UNCHANGED <<files, snaps, clock, nextId, env, res, made, twin, call>>

\* undo, lines 45-70
Undo ==
    /\ cli.pc # "executing"
    /\ cli.cmd # "undo"
    /\ \E confirmed \in BOOLEAN :
        LET last == get_last_entry(ledger)
            started == [NoCli EXCEPT !.cmd = "undo", !.lines_before = Len(ledger.lines),
                                     !.snaps_before = snaps, !.files_before = files]
        IN  IF last.raised
            THEN /\ cli' = [started EXCEPT !.pc = "raised"]
                 /\ UNCHANGED files
            ELSE IF last.entries = <<>> \/ ~last.entries[1].executed
            THEN /\ cli' = [started EXCEPT !.pc = "exit1",
                                           !.message = "No executed command to undo"]
                 /\ UNCHANGED files
            ELSE IF last.entries[1].snapshot_id = NoneVal
            THEN /\ cli' = [started EXCEPT !.pc = "exit1",
                                           !.message = "No snapshot available for this command"]
                 /\ UNCHANGED files
            ELSE IF ~confirmed
            THEN /\ cli' = [started EXCEPT !.pc = "done", !.message = "Undo cancelled"]
                 /\ UNCHANGED files
            ELSE \E r \in {restore_snapshot(files, snaps, <<last.entries[1].snapshot_id>>, {})} :
                    /\ files' = r.files
                    /\ cli' = [started EXCEPT
                                 !.asked = last.entries[1].snapshot_id,
                                 !.ret = r.ret,
                                 !.pc = IF r.ret = "True" THEN "done"
                                        ELSE IF r.ret = "False" THEN "exit1" ELSE "raised",
                                 !.message = IF r.ret = "True" THEN "Files restored successfully"
                                             ELSE IF r.ret = "False"
                                             THEN "Failed to restore files" ELSE ""]
    /\ ex' = Idle
    /\ UNCHANGED <<snaps, clock, nextId, env, res, made, twin, ledger, call>>

(***************************************************************************)
(* The plan request (core/ollama.py, OllamaClient.get_plan).  A response   *)
(* of the planner is a Plan, text that is not JSON, a JSON object that     *)
(* fails the Plan schema, a JSON value that is no object, or no response   *)
(* at all (a timeout, an HTTP error).                                      *)
(***************************************************************************)
max_retries == 2
ResponseKinds == {"plan", "notjson", "schema", "notobject", "timeout", "httperror"}
NoPlan == [commands |-> <<>>, affected_files |-> None, risk |-> "low"]
Responses ==
    {[kind |-> "plan", plan |-> plan] : plan \in SuggestPlans}
        \cup {[kind |-> k, plan |-> NoPlan] : k \in ResponseKinds \ {"plan"}}

\* lines 66-109, one pass of the loop on a response: the plan is returned,
\* the loop continues, or an exception leaves get_plan
attempt_outcome(attempt, kind) ==
    IF kind = "plan" THEN "return"
    ELSE IF kind = "schema" THEN "ValueError"
    ELSE IF kind = "notobject" THEN "TypeError"
    ELSE IF attempt < max_retries - 1 THEN "continue"
    ELSE "ValueError"

\* get_plan is called
PlanRequest ==
    /\ call.op = "none"
    /\ call' = [op |-> "get_plan", pc |-> "querying", attempt |-> 0, responses |-> <<>>,
                ret |-> NoPlan, error |-> ""]
    /\ UNCHANGED <<files, snaps, clock, nextId, env, ex, res, made, twin, ledger, cli>>

\* the planner is queried and get_plan handles its response
PlannerResponds ==
    /\ call.op = "get_plan" /\ call.pc = "querying"
    /\ \E response \in Responses :
        LET how == attempt_outcome(call.attempt, response.kind)
            heard == [call EXCEPT !.responses = Append(@, response)]
        IN  call' = IF how = "return"
                    THEN [heard EXCEPT !.pc = "returned", !.ret = response.plan]
                    ELSE IF how = "continue"
                    THEN [heard EXCEPT !.attempt = @ + 1]
                    ELSE [heard EXCEPT !.pc = "raised", !.error = how]
    /\ UNCHANGED <<files, snaps, clock, nextId, env, ex, res, made, twin, ledger, cli>>

(***************************************************************************)
(* Calls of the risk classifier (core/safety.py) on command texts.         *)
(***************************************************************************)
MaxWords == 3
MaxList == 3
SafetyWords == {"ls", "rm", "-rf", "/", "xmrig"}
SafetyCommands == SeqsUpTo(SafetyWords, MaxWords)
\* a low, a medium, a high, a blocked command, and a blocked one that no
\* high-risk pattern matches
ValidateTexts ==
    { <<"ls">>, <<"mv", "f", "g">>, <<"rm", "-rf", "build">>, <<"rm", "-rf", "/">>, <<"xmrig">> }

\* SafetyChecker.is_blocked(command)
IsBlocked ==
    /\ \E command \in SafetyCommands :
        call' = [op |-> "is_blocked", command |-> command, ret |-> is_blocked(command)]
    /\ UNCHANGED <<files, snaps, clock, nextId, env, ex, res, made, twin, ledger, cli>>

\* SafetyChecker.assess_risk(command); blocked is what its call of
\* is_blocked at line 120 returned
AssessRisk ==
    /\ \E command \in SafetyCommands :
        call' = [op |-> "assess_risk", command |-> command,
                 blocked |-> is_blocked(command).blocked, ret |-> assess_risk(command)]
    /\ UNCHANGED <<files, snaps, clock, nextId, env, ex, res, made, twin, ledger, cli>>

\* SafetyChecker.validate_commands(commands)
ValidateCommands ==
    /\ \E commands \in SeqsUpTo(ValidateTexts, MaxList) :
        call' = [op |-> "validate_commands", commands |-> commands,
                 ret |-> validate_commands(commands)]
    /\ UNCHANGED <<files, snaps, clock, nextId, env, ex, res, made, twin, ledger, cli>>

(***************************************************************************)
(* Specifications.                                                         *)
(***************************************************************************)
Modes == {"mock", "local", "docker"}
SandboxRoots == {None, Some(Home), Some(<<"tmp">>), Some(<<"tmp", "..", "home">>)}
\* auto_snapshot is the setting of config.json, True by default
DefaultEnv ==
    [executor_mode |-> "local", sandbox_root |-> None, cwd |-> Home \o <<"proj">>,
     auto_snapshot |-> TRUE]

InitStoreEmpty ==
    /\ snaps = <<>>
    /\ made = <<>>
    /\ clock = 0
    /\ nextId = 0
    /\ ex = Idle
    /\ res = ResIdle
    /\ twin = NoTwin
    /\ ledger = NoLedger
    /\ cli = NoCli
    /\ call = NoCall

InitCleanup ==
    /\ InitStoreEmpty
    /\ files = [p \in UserPaths |-> 1]
    /\ env = DefaultEnv

\* one execute_plan invocation of a freshly constructed Executor
InitExec ==
    /\ InitStoreEmpty
    /\ files \in {[p \in UserPaths |-> 1], [p \in UserPaths |-> IF p = HomeFile THEN Absent ELSE IsDir]}
    /\ env \in [executor_mode : Modes, sandbox_root : SandboxRoots, cwd : {Home \o <<"proj">>},
                auto_snapshot : {TRUE}]
NextExec == ExecBegin \/ ExecStep
SpecExec == InitExec /\ [][NextExec]_vars

\* The snapshot store under creation, edits and restores.  A restore changes
\* the user's files only to states Mutate reaches too, so a behaviour is not
\* followed beyond its first restore.
InitStore ==
    /\ InitStoreEmpty
    /\ files \in {f \in [UserPaths -> {Absent, IsDir, 1}] : f[ExtFile] # IsDir}
    /\ env = DefaultEnv
StoreCreate ==
    /\ res.op # "restore"
    /\ nextId < MaxStoreSnaps
    /\ \E paths \in PathLists, io \in IoModes, uncopyable \in {{}, {HomeFile}} :
          Create(paths, io, uncopyable)
StoreMutate == res.op # "restore" /\ (\A s \in DOMAIN made : made[s].pristine) /\ Mutate
StoreTamper == res.op # "restore" /\ Tamper
StoreRestore ==
    /\ res.op # "restore"
    /\ \E id \in {<<c>> : c \in DOMAIN snaps \cup {"zz"}}, unwritable \in {{}, {HomeFile}} :
          Restore(id, unwritable)
NextStore == StoreCreate \/ StoreMutate \/ StoreTamper \/ StoreRestore
SpecStore == InitStore /\ [][NextStore]_vars

\* restores of pristine snapshots under every id string of up to MaxIdLen
\* characters
IdChars == DOMAIN snaps \cup {Sep, Backslash, ".", "..", "zz"}
IdRestore ==
    /\ res.op # "restore"
    /\ \E id \in SeqsUpTo(IdChars, MaxIdLen) : Restore(id, {})
IdCreate ==
    /\ res.op # "restore"
    /\ nextId < MaxStoreSnaps
    /\ \E paths \in {<<HomeFile>>, <<ExtFile, HomeFile>>} : Create(paths, "ok", {})
NextIds == IdCreate \/ StoreMutate \/ IdRestore
SpecIds == InitCleanup /\ [][NextIds]_vars

\* One snapshot of two files below the home directory, the user's edits
\* and a restore in which the copies onto the files of `unwritable` fail with
\* an OSError (a read-only file, a parent that is no directory).  As in
\* SpecStore a behaviour ends with its first restore.
SecondHomeFile == Home \o <<"m">>
PartFiles == {HomeFile, SecondHomeFile}
InitPart ==
    /\ InitStoreEmpty
    /\ files \in [PartFiles -> {Absent, 1}]
    /\ env = DefaultEnv
PartCreate ==
    /\ res.op # "restore"
    /\ nextId < MaxStoreSnaps
    /\ \E paths \in {<<HomeFile, SecondHomeFile>>, <<SecondHomeFile>>} : Create(paths, "ok", {})
PartMutate ==
    /\ res.op # "restore"
    /\ \E path \in PartFiles, c \in {Absent} \cup Contents :
        /\ files[path] # c
        /\ files' = [files EXCEPT ![path] = c]
    /\ res' = ResIdle
    /\ UNCHANGED <<snaps, clock, nextId, env, ex, made, twin, ledger, cli, call>>
PartRestore ==
    /\ res.op # "restore"
    /\ \E sid \in DOMAIN snaps, unwritable \in SUBSET PartFiles : Restore(<<sid>>, unwritable)
NextPart == PartCreate \/ PartMutate \/ PartRestore
SpecPart == InitPart /\ [][NextPart]_vars

\* the snapshot store under creation, the passing of time and cleanup
CleanupCreate == \E io \in {"ok", "metadata_write_fails"} : Create(<<HomeFile>>, io, {})
NextCleanup == CleanupCreate \/ Tick \/ CleanupOldSnapshots
SpecCleanup == InitCleanup /\ [][NextCleanup]_vars

\* One process that calls execute_plan, add_entry with the result of the
\* call that returned last, and cleanup_old_snapshots with keep >= 1, in any
\* order, while days pass.  datetime.now() grows from one snapshot to the
\* next: no two snapshots carry the same timestamp.
KeepPlans ==
    [commands : {<< [command |-> <<"ls">>, dry_run |-> None] >>},
     affected_files : {None, Some(<<(<<"~", "n">>)>>)}, risk : {"low"}]
KeepBegin ==
    /\ ex.pc \in {"idle", "returned"}
    /\ \E plan \in KeepPlans :
        \E wn \in {execute_plan_begin(World(files, snaps, nextId, made, Idle), env, clock,
                                       plan, FALSE, "", "ok")} :
            /\ wn.nextId # nextId =>
                  /\ nextId < MaxSnaps
                  /\ \A sid \in DOMAIN snaps : snaps[sid].ts < clock
            /\ ex' = wn.ex
            /\ snaps' = wn.snaps
            /\ nextId' = wn.nextId
            /\ made' = wn.made
    /\ res' = ResIdle
    /\ UNCHANGED <<files, clock, env, twin, ledger, cli, call>>
\* the command succeeds and rewrites the affected file
KeepStep ==
    /\ ex.pc = "loop"
    /\ \E wn \in {execute_plan_step(World(files, snaps, nextId, made, ex), env,
                                     [kind |-> "completed", returncode |-> 0, output |-> ""],
                                     [path |-> HomeFile, content |-> 2])} :
            /\ ex' = wn.ex
            /\ files' = wn.files
    /\ UNCHANGED <<snaps, clock, nextId, env, res, made, twin, ledger, cli, call>>
KeepAppend ==
    /\ ex.pc = "returned"
    /\ Len(ledger.lines) < MaxSuggests
    /\ ledger' = add_entry(ledger, HistoryEntry(NextQuery, TRUE, ToString(ex.exit_code),
                                                ex.snapshot_id))
    /\ ex' = Idle
    /\ res' = ResIdle
    /\ UNCHANGED <<files, snaps, clock, nextId, env, made, twin, cli, call>>
KeepCleanup ==
    /\ ex.pc \in {"idle", "returned"}
    /\ \E keep \in 1..MaxSnaps, age \in 0..MaxTime, order \in sorted_newest_first(snaps) :
        LET r == cleanup_old_snapshots(snaps, clock, keep, age, order, {})
        IN  /\ snaps' = r.snaps
            /\ res' = [ResIdle EXCEPT !.op = "cleanup", !.ret = ToString(r.deleted),
                                      !.snaps = snaps, !.keep = keep, !.age = age]
    /\ UNCHANGED <<files, clock, nextId, env, ex, made, twin, ledger, cli, call>>
KeepTick == ex.pc \in {"idle", "returned"} /\ Tick
NextKeep == KeepBegin \/ KeepStep \/ KeepAppend \/ KeepCleanup \/ KeepTick
SpecKeep == InitCleanup /\ [][NextKeep]_vars

\* Two Executors in equal worlds are given the same call, the same
\* environment and the same command results; their plans differ in the
\* declared risk only.
Rank(risk) == CASE risk = "low" -> 1 [] risk = "medium" -> 2 [] risk = "high" -> 3
RiskBegin ==
    /\ ex.pc = "idle"
    /\ \E plan \in PlanSet, risk \in RiskLevels, arg_dry \in BOOLEAN, env_dry \in {""} :
        /\ Rank(plan.risk) < Rank(risk)
        /\ \E wn \in {execute_plan_begin(World(files, snaps, nextId, made, ex), env, clock,
                                         plan, arg_dry, env_dry, "ok")},
              tn \in {execute_plan_begin(World(files, snaps, nextId, made, ex), env, clock,
                                         [plan EXCEPT !.risk = risk], arg_dry, env_dry, "ok")} :
            /\ ex' = wn.ex
            /\ snaps' = wn.snaps
            /\ nextId' = wn.nextId
            /\ made' = wn.made
            /\ twin' = tn
    /\ UNCHANGED <<files, clock, env, res, ledger, cli, call>>
RiskStep ==
    /\ ex.pc = "loop" \/ twin.ex.pc = "loop"
    /\ \E run \in Runs(ex, env) \cup Runs(twin.ex, env) :
        \E wn \in {IF ex.pc = "loop"
                   THEN execute_plan_step(World(files, snaps, nextId, made, ex), env,
                                          run.o, run.eff)
                   ELSE World(files, snaps, nextId, made, ex)},
           tn \in {IF twin.ex.pc = "loop"
                   THEN execute_plan_step(twin, env, run.o, run.eff) ELSE twin} :
            /\ ex' = wn.ex
            /\ files' = wn.files
            /\ twin' = tn
    /\ UNCHANGED <<snaps, clock, nextId, env, res, made, ledger, cli, call>>
NextRisk == RiskBegin \/ RiskStep
InitRisk ==
    /\ InitStoreEmpty
    /\ files = [p \in UserPaths |-> 1]
    /\ env \in [executor_mode : Modes, sandbox_root : SandboxRoots, cwd : {Home \o <<"proj">>},
                auto_snapshot : {TRUE}]
SpecRisk == InitRisk /\ [][NextRisk]_vars

\* the ledger under appends, damage from outside and reads
InitLedger ==
    /\ InitStoreEmpty
    /\ files = [p \in UserPaths |-> 1]
    /\ env = DefaultEnv
NextLedger == AddEntry \/ LedgerDamage \/ GetHistory \/ GetLastEntry
SpecLedger == InitLedger /\ [][NextLedger]_vars

\* the ledger under appends and openings while time passes, in one process
NextRotate == RotAddEntry \/ OpenLedger \/ Tick
SpecRotate == InitLedger /\ [][NextRotate]_vars

\* suggest and undo invocations, one after the other
InitSuggest ==
    /\ InitStoreEmpty
    /\ files = [p \in UserPaths |-> 1]
    /\ env \in [executor_mode : {"local", "mock"}, sandbox_root : {None, Some(<<"tmp">>)},
                cwd : {Home \o <<"proj">>}, auto_snapshot : {TRUE}]
SuggestStep == cli.pc = "executing" /\ ExecStep
NextSuggest == SuggestBegin \/ SuggestStep \/ SuggestEnd \/ Undo
SpecSuggest == InitSuggest /\ [][NextSuggest]_vars

\* execute_plan under either setting of auto_snapshot
InitConfig ==
    /\ InitStoreEmpty
    /\ files = [p \in UserPaths |-> 1]
    /\ env \in [executor_mode : {"local"}, sandbox_root : {None}, cwd : {Home \o <<"proj">>},
                auto_snapshot : BOOLEAN]
SpecConfig == InitConfig /\ [][NextExec]_vars

\* calls of the classifier on one command, in any order
NextSafety == IsBlocked \/ AssessRisk
SpecSafety == InitLedger /\ [][NextSafety]_vars

\* validations of command lists
NextValidate == ValidateCommands
SpecValidate == InitLedger /\ [][NextValidate]_vars

\* one plan request
NextPlanner == PlanRequest \/ PlannerResponds
SpecPlanner == InitLedger /\ [][NextPlanner]_vars

(***************************************************************************)
(* Properties of execute_plan, checked under SpecExec.                     *)
(***************************************************************************)
Started == ex.pc # "idle"
Returned == ex.pc = "returned"
Cmds == ex.plan.commands
RunCalls == SelectSeq(ex.calls, LAMBDA c : c.op = "run")
SnapshotCalls == SelectSeq(ex.calls, LAMBDA c : c.op = "create_snapshot")
HasBlockedCommand == \E i \in 1..Len(Cmds) : is_blocked(Cmds[i].command).blocked
\* the values of DRIFT_DRY_RUN that read 1, true or yes in any letter case
EnvForcesDryRun == ex.env_dry \in {"1", "true", "TRUE", "True", "yes", "YES", "Yes"}
IsDryRun == ex.arg_dry \/ EnvForcesDryRun
IsLive == ~IsDryRun /\ env.executor_mode # "mock"

\* C1: a plan holding a blocked command, wherever it stands and whatever the
\* dry-run flag and the backend, returns exit code 1 and no snapshot id; no
\* snapshot is created and no command is run.
C1_BlockedPlanNeverRuns ==
    (Started /\ HasBlockedCommand) =>
        /\ Returned
        /\ ex.exit_code = 1
        /\ ex.snapshot_id = NoneVal
        /\ ex.calls = <<>>
        /\ DOMAIN snaps = {}
        /\ nextId = 0

C1_Witness ==
    /\ Returned
    /\ Len(Cmds) = 2
    /\ ~is_blocked(Cmds[1].command).blocked
    /\ is_blocked(Cmds[2].command).blocked
    /\ ~ex.arg_dry /\ ex.env_dry = ""
    /\ env.executor_mode = "local"
    /\ Truthy(ex.plan.affected_files)
    /\ ex.exit_code = 1

\* C2: in a live run that passed the gates the commands run are, in plan
\* order, a prefix of the plan; none follows a command that returned
\* non-zero; on return the prefix is the whole plan or ends at a failed
\* command, and the exit code is the last run command's code (0 only if
\* every command ran and returned 0).
C2_StopOnFirstFailure ==
    (IsLive /\ ex.gate = "passed") =>
        /\ Len(RunCalls) <= Len(Cmds)
        /\ \A k \in 1..Len(RunCalls) : RunCalls[k].idx = k
        /\ \A k \in 1..(Len(RunCalls) - 1) : RunCalls[k].code = 0
        /\ Returned =>
            /\ \/ Len(RunCalls) = Len(Cmds)
               \/ Len(RunCalls) > 0 /\ RunCalls[Len(RunCalls)].code # 0
            /\ ex.exit_code = IF RunCalls = <<>> THEN 0 ELSE RunCalls[Len(RunCalls)].code
            /\ ex.exit_code = 0 =>
                   /\ Len(RunCalls) = Len(Cmds)
                   /\ \A k \in 1..Len(RunCalls) : RunCalls[k].code = 0

C2_Witness ==
    /\ IsLive /\ ex.gate = "passed" /\ Returned
    /\ Len(Cmds) = 2
    /\ Len(RunCalls) = 1
    /\ RunCalls[1].code = 2
    /\ ex.exit_code = 2

\* the preview line of command i: its dry-run variant when there is one,
\* else its text
PreviewOfPresent(i) ==
    Line("DRY RUN", i, IF Cmds[i].dry_run.some THEN Cmds[i].dry_run.val ELSE Cmds[i].command)
\* the same, an empty variant counting as none
PreviewOfNonEmpty(i) ==
    Line("DRY RUN", i, IF Cmds[i].dry_run.some /\ Cmds[i].dry_run.val # <<>>
                       THEN Cmds[i].dry_run.val ELSE Cmds[i].command)
DryRunIsPure ==
    /\ ex.calls = <<>>
    /\ DOMAIN snaps = {}
    /\ ex.snapshot_id = NoneVal
    /\ ex.pc # "raised"

\* C3 as stated: every dry run, by flag or forced by the environment, creates
\* no snapshot, invokes no subprocess and returns one preview line per
\* command, showing the dry-run variant when present.
C3_AsStated ==
    (Started /\ IsDryRun) =>
        /\ DryRunIsPure
        /\ Returned => ex.output = [i \in 1..Len(Cmds) |-> PreviewOfPresent(i)]

\* C3 as amended: every dry run creates no snapshot and invokes no
\* subprocess; a dry run that passed both gates returns exit code 0 and one
\* preview line per command, showing the dry-run variant when it is present
\* and not empty.
C3_DryRunPure ==
    (Started /\ IsDryRun) =>
        /\ DryRunIsPure
        /\ (Returned /\ ex.gate = "passed") =>
              /\ ex.output = [i \in 1..Len(Cmds) |-> PreviewOfNonEmpty(i)]
              /\ ex.exit_code = 0

C3_Witness ==
    /\ Returned /\ ex.gate = "passed"
    /\ ~ex.arg_dry /\ ex.env_dry = "TRUE"
    /\ env.executor_mode = "local"
    /\ Truthy(ex.plan.affected_files)
    /\ Len(Cmds) = 2
    /\ Cmds[1].dry_run = None
    /\ Truthy(Cmds[2].dry_run)
    /\ Len(ex.output) = 2

\* C4: create_snapshot is called at most once in an invocation, only in a
\* run that is not a dry run, lists affected files and passed both gates,
\* and before any command is run.
C4_SnapshotOnceBeforeRun ==
    /\ Len(SnapshotCalls) <= 1
    /\ Cardinality(DOMAIN snaps) <= 1
    /\ nextId <= 1
    /\ (Len(SnapshotCalls) = 1 \/ nextId = 1) =>
          /\ ~IsDryRun
          /\ ex.plan.affected_files.some /\ ex.plan.affected_files.val # <<>>
          /\ ex.gate = "passed"
          /\ ex.calls[1].op = "create_snapshot"

C4_Witness ==
    /\ Returned
    /\ Len(ex.calls) = 3
    /\ ex.calls[1].op = "create_snapshot"
    /\ ex.calls[2].op = "run" /\ ex.calls[3].op = "run"
    /\ ex.snapshot_id # NoneVal

SnapshotFailed == Started /\ ex.io # "ok"

\* C5: when snapshot creation fails, execute_plan does not raise: it runs
\* the commands and returns no snapshot id.
C5_SnapshotFailureIsSoft ==
    SnapshotFailed =>
        /\ ex.pc # "raised"
        /\ Returned => ex.snapshot_id = NoneVal
        /\ (Returned /\ IsLive /\ Cmds # <<>>) => RunCalls # <<>>

SandboxConfigured == env.sandbox_root.some /\ env.sandbox_root.val # <<>>
CwdInsideSandbox == IsPrefix(resolve(env.sandbox_root.val), resolve(env.cwd))
NothingDone ==
    /\ Returned
    /\ ex.exit_code = 1
    /\ ex.snapshot_id = NoneVal
    /\ ex.calls = <<>>
    /\ DOMAIN snaps = {}
    /\ nextId = 0
ViolationMessage == <<Line("SANDBOX VIOLATION", 0, env.sandbox_root.val)>>

\* C12 as stated: with a sandbox root configured and the working directory
\* outside it, execute_plan returns exit code 1 and the violation message
\* naming the root, with no snapshot and no command run; with the working
\* directory inside the root the sandbox gate does not stop the plan.
C12_AsStated ==
    /\ (Started /\ SandboxConfigured /\ ~CwdInsideSandbox) =>
          NothingDone /\ ex.output = ViolationMessage
    /\ (Started /\ SandboxConfigured /\ CwdInsideSandbox) => ex.gate # "sandbox"

\* C12 as amended: outside the root nothing is done and exit code 1 is
\* returned; the message is the violation message naming the root when no
\* command of the plan is blocked, and the safety gate's warnings otherwise.
C12_SandboxGate ==
    /\ (Started /\ SandboxConfigured /\ ~CwdInsideSandbox) =>
          /\ NothingDone
          /\ ~HasBlockedCommand => ex.gate = "sandbox" /\ ex.output = ViolationMessage
          /\ HasBlockedCommand => ex.gate = "blocked" /\ ex.output # ViolationMessage
    /\ (Started /\ (~SandboxConfigured \/ CwdInsideSandbox)) => ex.gate # "sandbox"

C12_Witness ==
    /\ Returned /\ ex.gate = "sandbox"
    /\ env.sandbox_root = Some(<<"tmp">>)
    /\ env.executor_mode = "local"
    /\ ~IsDryRun
    /\ Truthy(ex.plan.affected_files)
    /\ Len(Cmds) = 2

\* C13: a command that exceeds its time bound counts as failed: its run has
\* a non-zero code, which execute_plan returns as its exit code, the output
\* holds the timed-out marker for that command and then the failure line,
\* and no later command of the plan is run.
C13_TimeoutIsFailure ==
    \A k \in 1..Len(RunCalls) :
        RunCalls[k].sub = "TimeoutExpired" =>
            /\ RunCalls[k].code # 0
            /\ k = Len(RunCalls)
            /\ Returned
            /\ ex.exit_code = RunCalls[k].code
            /\ \E j \in 1..(Len(ex.output) - 1) :
                  /\ ex.output[j] = Line("out", RunCalls[k].idx, <<TimedOutMarker>>)
                  /\ ex.output[j + 1] = Line("Command failed", RunCalls[k].code, <<>>)
                  /\ j + 1 = Len(ex.output)

\* the first of two commands times out
C13_Witness ==
    /\ Returned
    /\ Len(Cmds) = 2
    /\ Len(RunCalls) = 1
    /\ RunCalls[1].idx = 1
    /\ RunCalls[1].sub = "TimeoutExpired"
    /\ ex.exit_code = 1

\* the two records agree in everything but the risk their plans declare
SameButRisk(x, y) == [x EXCEPT !.plan.risk = "low"] = [y EXCEPT !.plan.risk = "low"]
TwinStarted == twin.ex.pc # "idle"

\* C11: two plans that differ only in the risk they declare, executed in the
\* same environment with the same command results, get the same gate
\* decision and the same snapshot decision, run the same commands, return
\* the same result and leave the same files and snapshots.
C11_DeclaredRiskIgnored ==
    TwinStarted =>
        /\ ex.plan.risk # twin.ex.plan.risk
        /\ SameButRisk(ex, twin.ex)
        /\ files = twin.files
        /\ snaps = twin.snaps
        /\ nextId = twin.nextId
        /\ made = twin.made

\* a plan declared low risk and its twin declared high risk, both stopped
\* at the safety gate for a blocked command
C11_Witness ==
    /\ TwinStarted /\ Returned
    /\ ex.plan.risk = "low" /\ twin.ex.plan.risk = "high"
    /\ HasBlockedCommand
    /\ ~IsDryRun
    /\ ex.gate = "blocked" /\ twin.ex.gate = "blocked"

\* C21: with the docker backend selected, every command execute_plan runs
\* is run inside a container, none directly on the host.
C21_DockerRunsInContainer ==
    env.executor_mode = "docker" =>
        \A i \in 1..Len(RunCalls) : RunCalls[i].where = "container"

ListsAffectedFiles == Truthy(ex.plan.affected_files)

\* C22: in a run that is not a dry run, passed the gates and lists affected
\* files, no snapshot is created and no snapshot id returned when
\* auto_snapshot is off, and a snapshot is created and its id returned when
\* it is on.
C22_AutoSnapshotRespected ==
    (Started /\ ex.gate = "passed" /\ ~IsDryRun /\ ListsAffectedFiles) =>
        IF env.auto_snapshot
        THEN SnapshotCalls # <<>> /\ (Returned => ex.snapshot_id # NoneVal)
        ELSE SnapshotCalls = <<>> /\ snaps = <<>> /\ ex.snapshot_id = NoneVal

MockRun == Started /\ env.executor_mode = "mock" /\ ~IsDryRun /\ ex.gate = "passed"
MockLines(n) == [i \in 1..n |-> Line("MOCK", i, Cmds[i].command)]

\* C23: with the mock backend, a run that is not a dry run and passed the
\* gates starts no subprocess, emits one "would execute" line per command,
\* labelled 1, 2, ... in the order of the plan, and returns exit code 0.
C23_MockBackend ==
    MockRun =>
        /\ RunCalls = <<>>
        /\ ex.pc \in {"loop", "returned"}
        /\ ex.pc = "loop" => ex.output = MockLines(ex.idx - 1)
        /\ Returned => ex.output = MockLines(Len(Cmds)) /\ ex.exit_code = 0

\* the same, but for the runs in which creating the snapshot raised
C23_MockUnlessSnapshotRaises ==
    MockRun =>
        /\ RunCalls = <<>>
        /\ ex.pc = "raised" => ex.io # "ok" /\ ListsAffectedFiles
        /\ ex.pc = "loop" => ex.output = MockLines(ex.idx - 1)
        /\ Returned => ex.output = MockLines(Len(Cmds)) /\ ex.exit_code = 0

C23_WitnessReturned ==
    /\ MockRun /\ Returned
    /\ Len(Cmds) = 2
    /\ ex.output = MockLines(2)
    /\ ex.snapshot_id # NoneVal

ReturnedSnapshot == Returned /\ ex.snapshot_id # NoneVal
\* restore_snapshot called on the returned id directly after the return
RestoreRightAfter == restore_snapshot(files, snaps, <<ex.snapshot_id>>, {})
\* the affected files that are regular files when execute_plan is called
SnapshottableFiles ==
    {i \in 1..Len(ex.plan.affected_files.val) :
        made[ex.snapshot_id].files[resolve(expanduser(ex.plan.affected_files.val[i]))]
            \in Contents}

\* C27: a snapshot id returned by execute_plan names a snapshot that holds
\* at least one file, and restore_snapshot on it directly afterwards returns
\* True; when no affected file exists as a regular file the id is None.
C27_SnapshotIdUsable ==
    ReturnedSnapshot =>
        /\ ex.snapshot_id \in DOMAIN snaps
        /\ snaps[ex.snapshot_id].entries # <<>>
        /\ SnapshottableFiles # {}
        /\ RestoreRightAfter.ret = "True"

\* what holds: the id names a snapshot with its metadata, and the restore
\* returns True when the snapshot holds a file from below the home directory
C27_UsableWhenHomeFileHeld ==
    ReturnedSnapshot =>
        /\ ex.snapshot_id \in DOMAIN snaps
        /\ snaps[ex.snapshot_id].meta = "ok"
        /\ (\E i \in 1..Len(snaps[ex.snapshot_id].entries) :
                IsPrefix(Home, snaps[ex.snapshot_id].entries[i].original))
              <=> RestoreRightAfter.ret = "True"

C27_WitnessHomeFileHeld ==
    /\ ReturnedSnapshot
    /\ RunCalls # <<>>
    /\ RestoreRightAfter.ret = "True"
    /\ RestoreRightAfter.files # files

(***************************************************************************)
(* Properties of the snapshot store, checked under SpecStore, SpecIds and  *)
(* SpecCleanup.                                                            *)
(***************************************************************************)
Restored == res.op = "restore"
\* the snapshot a restore was asked for by its plain name, if it exists
RestoredSnap == IF Len(res.id) = 1 /\ res.id[1] \in DOMAIN snaps THEN res.id[1] ELSE NoneVal
\* no copy was made to fail in the restore or in the creation of the snapshot
NoIoError(sid) == res.unwritable = {} /\ made[sid].clean
\* the one file a snapshot was asked to hold, and its content at that time
AskedPath(sid) == resolve(expanduser(made[sid].paths[1]))
AskedContent(sid) == made[sid].files[AskedPath(sid)]

\* the round trip of snapshot sid: made of one regular file, metadata.json
\* never edited, no copy failing
RoundTripOf(sid) ==
    /\ Restored /\ RestoredSnap = sid
    /\ made[sid].pristine /\ NoIoError(sid)
    /\ Len(made[sid].paths) = 1
    /\ AskedContent(sid) \in Contents

\* C6: create_snapshot([p]) of a regular file with content C, any changes of
\* the file, then restore_snapshot(id): the restore returns True and the file
\* holds C again.
C6_RoundTrip ==
    \A sid \in DOMAIN made :
        RoundTripOf(sid) => res.ret = "True" /\ files[AskedPath(sid)] = AskedContent(sid)

\* the same for the files below the home directory only
C6_RoundTripInHome ==
    \A sid \in DOMAIN made :
        (RoundTripOf(sid) /\ IsPrefix(Home, AskedPath(sid))) =>
            res.ret = "True" /\ files[AskedPath(sid)] = AskedContent(sid)

C6_WitnessInHome ==
    \E sid \in DOMAIN made :
        /\ RoundTripOf(sid) /\ IsPrefix(Home, AskedPath(sid))
        /\ res.files[AskedPath(sid)] \notin {AskedContent(sid)}

\* the id is empty, holds '/' or '\', or starts with '.'
BadIdFormat(id) ==
    \/ id = <<>>
    \/ \E k \in 1..Len(id) : id[k] \in {"/", "\\"}
    \/ id # <<>> /\ id[1] \in {".", ".."}

\* C7: restore_snapshot of an id that is empty, holds '/' or '\' or starts
\* with '.' returns False without going to the filesystem: no file changes.
C7_BadIdRejected ==
    (Restored /\ BadIdFormat(res.id)) =>
        /\ res.ret = "False"
        /\ ~res.touched
        /\ files = res.files

\* an id with a separator that names an existing snapshot whose file has changed
C7_Witness ==
    /\ Restored
    /\ Len(res.id) = 2 /\ res.id[2] = "/" /\ res.id[1] \in DOMAIN snaps
    /\ snapshot_dir_of(snaps, res.id) = res.id[1]
    /\ snaps[res.id[1]].entries # <<>>
    /\ files[HomeFile] # made[res.id[1]].files[HomeFile]
    /\ res.ret = "False"

\* an entry of metadata.json passes both path checks: its snapshot-side path
\* resolves inside the store and its original-side path inside the home
EntryInside(e) ==
    /\ e.original # <<>> /\ e.snapshot # <<>>
    /\ expanduser(e.original) # Unresolvable
    /\ IsPrefix(SnapshotsDir, resolve(e.snapshot))
    /\ IsPrefix(Home, resolve(expanduser(e.original)))
\* ... and names a copy that exists
EntryRestorable(e) == EntryInside(e) /\ SnapSideFile(files, snaps, resolve(e.snapshot)) \in Contents
EntriesOf(sid) == snaps[sid].entries
Copied == {res.copied[k] : k \in 1..Len(res.copied)}

\* C8: whatever metadata.json holds, a restore copies a file only for an
\* entry that passes both path checks; an entry that fails one is skipped,
\* the restore is not aborted and every entry that passes is restored.
C8_OnlyCheckedEntriesRestored ==
    \A sid \in DOMAIN snaps :
        (Restored /\ RestoredSnap = sid /\ snaps[sid].meta = "ok" /\ res.unwritable = {}) =>
            /\ \A p \in Copied :
                  \E k \in 1..Len(EntriesOf(sid)) :
                      EntryInside(EntriesOf(sid)[k]) /\ resolve(expanduser(EntriesOf(sid)[k].original)) = p
            /\ res.ret # "raise"
            /\ \A k \in 1..Len(EntriesOf(sid)) :
                  EntryRestorable(EntriesOf(sid)[k]) =>
                      resolve(expanduser(EntriesOf(sid)[k].original)) \in Copied

\* the part of C8 that holds: nothing is copied for an entry failing a check
C8_NothingCopiedOutside ==
    \A sid \in DOMAIN snaps :
        (Restored /\ RestoredSnap = sid) =>
            /\ \A p \in Copied :
                  /\ IsPrefix(Home, p)
                  /\ \E k \in 1..Len(EntriesOf(sid)) :
                        EntryInside(EntriesOf(sid)[k]) /\ resolve(expanduser(EntriesOf(sid)[k].original)) = p
            /\ \A q \in UserPaths : ~IsPrefix(Home, q) => files[q] = res.files[q]

\* C9: restore_snapshot returns True only if it copied a file, and returns
\* False without raising when the snapshot directory or metadata.json is
\* missing, metadata.json is corrupt, or no file was restored.
C9_RestoreResult ==
    Restored =>
        /\ res.ret = "True" => res.copied # <<>>
        /\ (\/ RestoredSnap = NoneVal
            \/ RestoredSnap # NoneVal /\ snaps[RestoredSnap].meta # "ok"
            \/ res.copied = <<>>) => res.ret = "False"

\* C28: a restore_snapshot call that returns False has changed none of the
\* user's files.
C28_FailedRestoreChangesNothing ==
    (Restored /\ res.ret = "False") => files = res.files

\* the same for the restores in which no copy fails
C28_FalseWithoutCopyError ==
    (Restored /\ res.ret = "False" /\ res.unwritable = {}) =>
        files = res.files /\ res.copied = <<>>

C28_WitnessFalse ==
    /\ Restored /\ res.ret = "False" /\ res.unwritable = {}
    /\ RestoredSnap # NoneVal
    /\ snaps[RestoredSnap].entries = <<>>
    /\ files # made[RestoredSnap].files

\* C10: cleanup never deletes one of the keep most recent snapshots, deletes
\* only snapshots older than now - max_age_days, and returns the number it
\* deleted.
Deleted == DOMAIN res.snaps \ DOMAIN snaps
C10_CleanupKeepsRecent ==
    res.op = "cleanup" =>
        /\ \A d \in Deleted :
              /\ Cardinality({t \in DOMAIN res.snaps \ {d} :
                                 res.snaps[t].meta = "ok" /\ res.snaps[t].ts >= res.snaps[d].ts})
                     >= res.keep
              /\ res.snaps[d].ts < clock - res.age
        /\ \A s \in DOMAIN snaps : snaps[s] = res.snaps[s]
        /\ res.ret = ToString(Cardinality(Deleted))

\* a snapshot older than the cutoff is kept as one of the keep most recent
\* while an older one is deleted
C10_Witness ==
    /\ res.op = "cleanup"
    /\ res.keep >= 1
    /\ Deleted # {}
    /\ \E s \in DOMAIN snaps : snaps[s].meta = "ok" /\ snaps[s].ts < clock - res.age

(***************************************************************************)
(* Properties of the ledger, checked under SpecLedger.                     *)
(***************************************************************************)
Read == call.op \in {"get_history", "get_last_entry"}
WellFormed(line) == line.kind = "entry"
\* the last n records of the log read by the call, n >= 0
LastRecords(n) ==
    SubSeq(call.log.lines, (IF Len(call.log.lines) > n THEN Len(call.log.lines) - n ELSE 0) + 1,
           Len(call.log.lines))
NewestFirst(lines) == [i \in 1..Len(lines) |-> lines[Len(lines) + 1 - i]]

\* C14: a get_history(limit) that returns, limit >= 0, returns at most limit
\* entries: the well-formed ones among the last limit records of the log,
\* the most recently appended first; nothing for an empty or missing log.
C14_GetHistoryLimit ==
    (call.op = "get_history" /\ ~call.raised) =>
        /\ Len(call.ret) <= call.limit
        /\ call.ret = NewestFirst(SelectSeq(LastRecords(call.limit), WellFormed))
        /\ call.log.lines = <<>> => call.ret = <<>>

\* the same for the limits above zero
C14_PositiveLimit ==
    (call.op = "get_history" /\ ~call.raised /\ call.limit > 0) =>
        /\ Len(call.ret) <= call.limit
        /\ call.ret = NewestFirst(SelectSeq(LastRecords(call.limit), WellFormed))

C14_WitnessPositive ==
    /\ call.op = "get_history" /\ ~call.raised
    /\ call.limit = 2 /\ Len(call.log.lines) = 3
    /\ \A i \in 1..3 : WellFormed(call.log.lines[i])
    /\ Len(call.ret) = 2

\* the records the call reads: all of them for get_history(0), as the code
\* has it, else the last limit records
RangeRead == IF call.limit = 0 THEN call.log.lines ELSE LastRecords(call.limit)

\* C15: whatever malformed records the ledger holds, get_history and
\* get_last_entry do not fail, and return every well-formed record of the
\* range they read.
C15_MalformedSkipped ==
    Read =>
        /\ ~call.raised
        /\ \A i \in 1..Len(RangeRead) :
              WellFormed(RangeRead[i]) =>
                  \E j \in 1..Len(call.ret) : call.ret[j] = RangeRead[i]

\* the same for the records that are not JSON or are a JSON object that is
\* no HistoryEntry
C15_SkippedWhenCaught ==
    (Read /\ \A i \in 1..Len(call.log.lines) : call.log.lines[i].kind \in {"entry", "notjson", "schema"}) =>
        /\ ~call.raised
        /\ call.op = "get_history" =>
              \A i \in 1..Len(RangeRead) :
                  WellFormed(RangeRead[i]) =>
                      \E j \in 1..Len(call.ret) : call.ret[j] = RangeRead[i]

C15_WitnessCaught ==
    /\ call.op = "get_history" /\ ~call.raised
    /\ call.limit = 3 /\ Len(call.log.lines) = 3
    /\ call.log.lines[2].kind = "notjson"
    /\ Len(call.ret) = 2

WellFormedAt == {i \in 1..Len(call.log.lines) : WellFormed(call.log.lines[i])}
LastWellFormed == call.log.lines[CHOOSE i \in WellFormedAt : \A j \in WellFormedAt : j <= i]

\* C30: a get_last_entry that returns gives the well-formed entry appended
\* last whenever the log holds a well-formed entry, and nothing only when
\* the log holds none.
C30_LastWellFormedEntry ==
    (call.op = "get_last_entry" /\ ~call.raised) =>
        IF WellFormedAt # {} THEN call.ret = <<LastWellFormed>> ELSE call.ret = <<>>

\* what holds: the entry returned is the last line of the log, if that line
\* is well-formed
C30_LastLineOnly ==
    (call.op = "get_last_entry" /\ ~call.raised) =>
        IF call.log.lines # <<>> /\ WellFormed(call.log.lines[Len(call.log.lines)])
        THEN call.ret = <<call.log.lines[Len(call.log.lines)]>>
        ELSE call.ret = <<>>

C30_WitnessLastLine ==
    /\ call.op = "get_last_entry" /\ ~call.raised
    /\ Len(call.log.lines) = 2
    /\ call.ret = <<call.log.lines[2]>>

(***************************************************************************)
(* Properties of suggest and undo, checked under SpecSuggest.              *)
(***************************************************************************)
\* a suggest invocation that got a plan has ended
SuggestEnded == cli.cmd = "suggest" /\ cli.pc \in {"done", "exit1"} /\ cli.branch # "no_plan"
LastLine == ledger.lines[Len(ledger.lines)]
\* nothing was run or snapshotted, and the one entry appended says so
RecordedUnexecuted ==
    /\ cli.ran = 0
    /\ cli.snapshots = 0
    /\ snaps = cli.snaps_before
    /\ files = cli.files_before
    /\ Len(ledger.lines) = cli.lines_before + 1
    /\ LastLine.kind = "entry"
    /\ ~LastLine.executed
    /\ LastLine.snapshot_id = NoneVal

\* C16: a suggest that ends with the plan blocked, handled as a dry run
\* (asked for by --dry-run or forced by the environment) or declined at the
\* prompt runs no command, creates no snapshot and appends an entry with
\* executed = false and no snapshot id.
C16_UnexecutedRecorded ==
    (SuggestEnded /\ (cli.branch \in {"blocked", "dry_run", "cancelled"} \/ cli.dry_handled)) =>
        RecordedUnexecuted

\* the same for the three branches of suggest that record executed = false
C16_BranchesRecorded ==
    (SuggestEnded /\ cli.branch \in {"blocked", "dry_run", "cancelled"}) => RecordedUnexecuted

C16_WitnessBranches ==
    /\ SuggestEnded /\ cli.branch = "dry_run"
    /\ Len(ex.plan.commands) = 2
    /\ Truthy(ex.plan.affected_files)
    /\ cli.lines_before = 1
    /\ ledger.lines[1].executed /\ ledger.lines[1].snapshot_id # NoneVal

UndoEnded == cli.cmd = "undo"
\* the most recent entry of the ledger, if it is one undo can act on
LastUndoable ==
    /\ ledger.lines # <<>>
    /\ LastLine.kind = "entry" /\ LastLine.executed /\ LastLine.snapshot_id # NoneVal
\* the files the snapshot of the most recent entry was asked to hold
PathsOf(sid) == {resolve(expanduser(made[sid].paths[i])) : i \in 1..Len(made[sid].paths)}
\* undo restores nothing unless the most recent entry is undoable, and then
\* asks for that entry's snapshot only
UndoActsOnLast ==
    /\ cli.asked # NoneVal => LastUndoable /\ cli.asked = LastLine.snapshot_id
    /\ cli.asked = NoneVal => files = cli.files_before
    /\ ~LastUndoable =>
          /\ files = cli.files_before
          /\ cli.pc = "exit1"
          /\ cli.message \in {"No executed command to undo",
                              "No snapshot available for this command"}

\* C17: undo asks for the snapshot of the most recent entry only; a confirmed
\* undo directly after a confirmed execution leaves every affected file that
\* was a regular file at its content from before the execution; and with a
\* most recent entry that was not executed or has no snapshot id, undo
\* restores nothing and reports an error.
C17_UndoLastEntry ==
    UndoEnded =>
        /\ UndoActsOnLast
        /\ cli.asked # NoneVal =>
              \A p \in PathsOf(cli.asked) :
                  made[cli.asked].files[p] \in Contents =>
                      files[p] = made[cli.asked].files[p]

\* the same for the affected files below the home directory
C17_UndoInHome ==
    UndoEnded =>
        /\ UndoActsOnLast
        /\ cli.asked # NoneVal =>
              \A p \in PathsOf(cli.asked) :
                  (made[cli.asked].files[p] \in Contents /\ IsPrefix(Home, p)) =>
                      /\ files[p] = made[cli.asked].files[p]
                      /\ cli.pc = "done"
                      /\ cli.message = "Files restored successfully"

\* the command changed the file and the undo brought it back
C17_WitnessInHome ==
    /\ UndoEnded /\ cli.asked # NoneVal
    /\ HomeFile \in PathsOf(cli.asked)
    /\ cli.files_before[HomeFile] # made[cli.asked].files[HomeFile]
    /\ files[HomeFile] = made[cli.asked].files[HomeFile]
    /\ Len(ledger.lines) = 2

\* the most recent entry was declined while an older one has a snapshot
C17_WitnessNotLast ==
    /\ UndoEnded /\ cli.pc = "exit1"
    /\ Len(ledger.lines) = 2
    /\ ledger.lines[1].executed /\ ledger.lines[1].snapshot_id # NoneVal
    /\ ~ledger.lines[2].executed

\* the suggest that just ended appended an entry with executed = true
RecordedExecuted ==
    /\ SuggestEnded
    /\ Len(ledger.lines) = cli.lines_before + 1
    /\ LastLine.kind = "entry" /\ LastLine.executed

\* C26: an entry with executed = true is appended only for a run of
\* execute_plan that started at least one command as a subprocess; a run
\* stopped by the sandbox gate, turned into a dry run by the environment or
\* served by the mock backend is not recorded as executed.
C26_ExecutedMeansRan ==
    RecordedExecuted =>
        /\ cli.ran >= 1
        /\ ~cli.dry_handled
        /\ env.executor_mode # "mock"

\* what holds: executed = true is recorded exactly for the execute branch
C26_ExecutedMeansBranch ==
    RecordedExecuted => cli.branch = "execute"

(***************************************************************************)
(* Rotation of the ledger, checked under SpecRotate.                       *)
(***************************************************************************)
Opened == res.op = "open"
Before == res.log.lines
Half == Len(Before) \div 2
OverThreshold == res.log.exists /\ Len(Before) > MaxHistoryLines

C24_WitnessAtThreshold ==
    /\ Opened /\ res.log.exists
    /\ Len(Before) = MaxHistoryLines
    /\ ledger = res.log /\ ledger.archives = <<>>

RECURSIVE ArchivedUpTo(_)
\* the lines of the archives named by the times 0..t, oldest archive first
ArchivedUpTo(t) ==
    IF t < 0 THEN <<>>
    ELSE ArchivedUpTo(t - 1) \o (IF t \in DOMAIN ledger.archives THEN ledger.archives[t] ELSE <<>>)
EverAppended == IF call.op = "add_entry" THEN call.appended ELSE <<>>

\* C25: add_entry only appends one record to the end of the log, and every
\* record ever appended is, unmodified and once, in the log or in an
\* archive, in the order of the appends.
C25_AppendOnly ==
    /\ res.op = "add_entry" =>
          /\ ledger.lines = Append(res.log.lines, res.entry)
          /\ ledger.archives = res.log.archives
    /\ ArchivedUpTo(MaxTime + 1) \o ledger.lines = EverAppended

\* what holds: add_entry only appends, and a rotation at a time at which no
\* archive was written before loses nothing
C25_AppendOnlyAtNewTime ==
    /\ res.op = "add_entry" =>
          /\ ledger.lines = Append(res.log.lines, res.entry)
          /\ ledger.archives = res.log.archives
    /\ (Opened /\ OverThreshold /\ res.now \notin DOMAIN res.log.archives) =>
          /\ ledger.archives[res.now] \o ledger.lines = Before
          /\ \A t \in DOMAIN res.log.archives : ledger.archives[t] = res.log.archives[t]

(***************************************************************************)
(* Cleanup and the ledger, checked under SpecKeep.                         *)
(***************************************************************************)
LastEntryHasSnapshot ==
    ledger.lines # <<>> /\ LastLine.kind = "entry" /\ LastLine.snapshot_id # NoneVal

\* C29: cleanup with keep >= 1 never deletes the snapshot the most recent
\* entry of the ledger refers to.
C29_LastSnapshotKept ==
    LastEntryHasSnapshot => LastLine.snapshot_id \in DOMAIN snaps

\* what holds: the snapshot created last is never deleted
C29_NewestSnapshotKept ==
    nextId >= 1 => SnapName(nextId) \in DOMAIN snaps

\* a cleanup deleted an older snapshot and kept the newest, which the most
\* recent entry refers to
C29_WitnessNewestKept ==
    /\ res.op = "cleanup" /\ res.ret = "1"
    /\ LastEntryHasSnapshot
    /\ LastLine.snapshot_id = SnapName(nextId)
    /\ LastLine.snapshot_id \in DOMAIN snaps

(***************************************************************************)
(* Properties of the plan request, checked under SpecPlanner.              *)
(***************************************************************************)
Requested == call.op = "get_plan"
Queries == Len(call.responses)
LastResponse == call.responses[Queries]
RequestOver == Requested /\ call.pc # "querying"

\* C18: a response that is malformed JSON or fails the Plan schema is
\* followed by exactly one more query before the error is raised; the
\* planner is queried at most twice; a request that fails raises ValueError;
\* and only a Plan the planner sent is returned.
C18_RetryOnce ==
    Requested =>
        /\ Queries <= 2
        /\ (call.pc = "raised" /\ LastResponse.kind \in {"notjson", "schema"}) => Queries = 2
        /\ call.pc = "raised" => call.error = "ValueError"
        /\ call.pc = "returned" => LastResponse.kind = "plan" /\ call.ret = LastResponse.plan
        /\ (RequestOver /\ LastResponse.kind # "plan") => call.pc = "raised"

\* the same for the responses that are not JSON and for missing responses
C18_RetryOnJsonError ==
    (Requested /\ \A i \in 1..Queries : call.responses[i].kind \notin {"schema", "notobject"}) =>
        /\ Queries <= 2
        /\ call.pc = "raised" => Queries = 2 /\ call.error = "ValueError"
        /\ call.pc = "returned" => LastResponse.kind = "plan" /\ call.ret = LastResponse.plan
        /\ (RequestOver /\ LastResponse.kind # "plan") => call.pc = "raised"

C18_WitnessJsonError ==
    /\ Requested /\ call.pc = "raised"
    /\ Queries = 2
    /\ call.responses[1].kind = "notjson" /\ call.responses[2].kind = "notjson"

(***************************************************************************)
(* Properties of the risk classifier, checked under SpecValidate (C19)     *)
(* and SpecSafety (C20).                                                   *)
(***************************************************************************)
Hits(patterns, command) == \E k \in 1..Len(patterns) : re_search(patterns[k], command)
Validated == call.op = "validate_commands"
Blocked(cmd) == Hits(HARD_BLOCKLIST, cmd)
\* the tag of the warning a command is due, "" for none
TagDue(cmd) ==
    IF Blocked(cmd) THEN "BLOCKED"
    ELSE IF Hits(HIGH_RISK_PATTERNS, cmd) THEN "HIGH RISK"
    ELSE IF Hits(MEDIUM_RISK_PATTERNS, cmd) THEN "MEDIUM RISK"
    ELSE ""
Flagged(commands) == {i \in 1..Len(commands) : TagDue(commands[i]) # ""}
\* the position of command i among the flagged commands
Place(commands, i) == Cardinality({j \in Flagged(commands) : j <= i})

\* C19: validate_commands looks at every command of the list: allSafe is
\* false exactly when some command is blocked; the warnings are one per
\* blocked, high-risk or medium-risk command, in the order of the commands,
\* none for a low-risk command; a medium or high risk does not make allSafe
\* false.
C19_ValidateAll ==
    Validated =>
        LET commands == call.commands
            warnings == call.ret.warnings
        IN  /\ call.ret.all_safe = ~(\E i \in 1..Len(commands) : Blocked(commands[i]))
            /\ Len(warnings) = Cardinality(Flagged(commands))
            /\ \A i \in Flagged(commands) :
                /\ warnings[Place(commands, i)].text = commands[i]
                /\ warnings[Place(commands, i)].tag = TagDue(commands[i])

\* a blocked command first, then a low, then a high-risk one: two warnings
C19_Witness ==
    /\ Validated
    /\ call.commands = << <<"rm", "-rf", "/">>, <<"ls">>, <<"rm", "-rf", "build">> >>
    /\ ~call.ret.all_safe
    /\ Len(call.ret.warnings) = 2
    /\ call.ret.warnings[2].tag = "HIGH RISK"

\* high and medium risks alone leave allSafe true
C19_WitnessSafe ==
    /\ Validated
    /\ call.commands = << <<"mv", "f", "g">>, <<"rm", "-rf", "build">> >>
    /\ call.ret.all_safe
    /\ Len(call.ret.warnings) = 2

TierDue(command) ==
    IF Hits(HARD_BLOCKLIST, command) \/ Hits(HIGH_RISK_PATTERNS, command) THEN "high"
    ELSE IF Hits(MEDIUM_RISK_PATTERNS, command) THEN "medium"
    ELSE "low"

C20_Tiers ==
    /\ call.op = "assess_risk" =>
        /\ call.ret = TierDue(call.command)
        /\ call.blocked => call.ret = "high"
    /\ call.op = "is_blocked" => (call.ret.blocked <=> Hits(HARD_BLOCKLIST, call.command))

\* a call changes nothing but its own result, and a call repeated on the
\* same command returns the same result
C20_Pure ==
    /\ UNCHANGED <<files, snaps, clock, nextId, env, ex, res, made, twin, ledger, cli>>
    /\ (call.op = call'.op /\ call.op \in {"assess_risk", "is_blocked"}
            /\ call.command = call'.command) => call'.ret = call.ret
    /\ (call.op = "is_blocked" /\ call'.op = "assess_risk" /\ call.command = call'.command
            /\ call.ret.blocked) => call'.ret = "high"

C20_WitnessMedium ==
    /\ call.op = "assess_risk"
    /\ call.command = <<"rm", "ls">>
    /\ ~call.blocked /\ call.ret = "medium"

====
